---- MODULE Spec2Model ----
\* A model of src/index.js: the Shopify order webhooks that relay WhatsApp
\* template messages to the admin roster and to the customer.
\*
\* JavaScript strings that the code parses (phones, configuration lists) are
\* sequences of one-character strings; a JavaScript value is a record whose
\* field t is its type ("undefined", "string", "number", "object", "array").
EXTENDS Integers, Sequences, FiniteSets, TLC

VARIABLES
    env,          \* process.env: ADMIN_WHATSAPP_NUMBERS, ADMIN_NAMES, ADMIN_CONTACTS
    now,          \* Date.now()
    lastActivity, \* let lastActivity (index.js:16)
    req,          \* the request being handled: route, headers, rawBody, body
    pc,           \* where the handling of req stands
    entered,      \* TRUE once the async (req, res) handler body has been entered
    validated,    \* TRUE once the handler is past its 400 gates
    adminDetails, \* sendAdminWhatsapp's local adminDetails (the roster of the call)
    promises,     \* sendAdminWhatsapp's local promises, one per recipient
    adminCall,    \* the sendAdminWhatsapp call: "none", "running", "returned", "raised"
    custCall,     \* the sendCustomerWhatsapp call: "none", "running", "returned", "raised"
    custPhone,    \* the handler's local customerPhone / phone (getCustomerPhone's result)
    posts,        \* the axios.post calls issued for req, in issue order
    http,         \* the state of each of them: "pending", "ok", "error"
    responses,    \* the status codes sent on res for req, in order
    unitIn,       \* the argument of a direct call of a pure function
    unitOut,      \* its result
    keepAliveUrl,      \* process.env.KEEP_ALIVE_URL
    keepAliveInterval, \* let keepAliveInterval (index.js:17) and when the timer is due
    cycles,       \* the runs of sendKeepAlive so far, in order
    ping,         \* the fetch of the running sendKeepAlive: "none", "pending"
    proc          \* the process: "running", "exited", "crashed"

vars == <<env, now, lastActivity, req, pc, entered, validated, adminDetails,
          promises, adminCall, custCall, custPhone, posts, http, responses,
          unitIn, unitOut, keepAliveUrl, keepAliveInterval, cycles, ping, proc>>

\* The state of the keep-alive monitor and of the process.
timerVars == <<keepAliveUrl, keepAliveInterval, cycles, ping, proc>>

-----------------------------------------------------------------------------
\* Bounds of the model.

\* The largest admin roster configured.
MaxAdmins == 3
\* The longest run of filler digits in a generated phone string.
MaxFill == 12
\* The last minute the clock reaches.
MaxTime == 21

-----------------------------------------------------------------------------
\* Keep-alive configuration (index.js:11-17, 64-68). Time is counted in minutes.

INACTIVITY_THRESHOLD == 5
KEEP_ALIVE_INTERVAL == 10

NoTimer == [state |-> "null", due |-> 0]

\* if (process.env.KEEP_ALIVE_URL) keepAliveInterval = setInterval(sendKeepAlive,
\* KEEP_ALIVE_INTERVAL), at load time t.
StartKeepAlive(url, t) ==
    IF url.t = "string" /\ Len(url.s) > 0
    THEN [state |-> "armed", due |-> t + KEEP_ALIVE_INTERVAL]
    ELSE NoTimer

-----------------------------------------------------------------------------
\* JavaScript values.

Undef == [t |-> "undefined", s |-> <<>>]
Str(chars) == [t |-> "string", s |-> chars]
\* A truthy value that is not a string (a JSON number such as 9876543210).
Num == [t |-> "number", s |-> <<>>]
JsNull == [t |-> "null", s |-> <<>>]

\* JavaScript truthiness of such a value: undefined/null and "" are falsy.
Truthy(v) == v.t \notin {"undefined", "null", "string"} \/ (v.t = "string" /\ Len(v.s) > 0)

\* a || b
Or(a, b) == IF Truthy(a) THEN a ELSE b

RECURSIVE RemoveWhitespace(_)
\* s.replace(/\s+/g, "")
RemoveWhitespace(s) ==
    IF s = <<>> THEN <<>>
    ELSE IF Head(s) = " " THEN RemoveWhitespace(Tail(s))
    ELSE <<Head(s)>> \o RemoveWhitespace(Tail(s))

\* s.replace(/^\+/, "")
RemoveLeadingPlus(s) == IF s # <<>> /\ Head(s) = "+" THEN Tail(s) ELSE s

\* s.startsWith(p)
StartsWith(s, p) == Len(s) >= Len(p) /\ SubSeq(s, 1, Len(p)) = p

\* s.substring(1)
Substring1(s) == IF s = <<>> THEN <<>> ELSE Tail(s)

-----------------------------------------------------------------------------
\* getCustomerPhone (index.js:110-152). The result is a record: k = "null"
\* (return null), "phone" (return of the string s) or "throw" (a TypeError).

Null == [k |-> "null", s |-> <<>>]
Phone(chars) == [k |-> "phone", s |-> chars]
Throw == [k |-> "throw", s |-> <<>>]
\* No call has been made.
NoResult == [k |-> "none", s |-> <<>>]

\* customer.phone || customer.default_address?.phone || null
RawPhone(customer) ==
    IF customer.t # "object" THEN Undef
    ELSE Or(customer.phone,
            IF customer.default_address.t = "object"
            THEN customer.default_address.phone ELSE Undef)

\* rawPhone.replace(/\s+/g, "").replace(/^\+/, "")
CleanPhone(rawChars) == RemoveLeadingPlus(RemoveWhitespace(rawChars))

\* A variant that forgets substring(1) on the "0" branch.
NormalizeCleanedKeepZero(c) ==
    IF c = <<>> \/ Len(c) < 10 THEN Null
    ELSE IF StartsWith(c, <<"9", "1">>) /\ Len(c) = 12 THEN Phone(c)
    ELSE IF Len(c) = 10 /\ ~StartsWith(c, <<"9", "1">>) THEN Phone(<<"9", "1">> \o c)
    ELSE IF Len(c) = 11 /\ StartsWith(c, <<"0">>) THEN Phone(<<"9", "1">> \o c)
    ELSE IF Len(c) = 12 THEN Phone(c)
    ELSE Null

\* The chain of tests on cleanedPhone, index.js:124-151.
NormalizeCleaned(c) ==
    IF c = <<>> \/ Len(c) < 10 THEN Null
    ELSE IF StartsWith(c, <<"9", "1">>) /\ Len(c) = 12 THEN Phone(c)
    ELSE IF Len(c) = 10 /\ ~StartsWith(c, <<"9", "1">>) THEN Phone(<<"9", "1">> \o c)
    ELSE IF Len(c) = 11 /\ StartsWith(c, <<"0">>) THEN Phone(<<"9", "1">> \o Substring1(c))
    ELSE IF Len(c) = 12 THEN Phone(c)
    ELSE Null

getCustomerPhone(customer) ==
    IF ~Truthy(customer) THEN Null
    ELSE LET rawPhone == RawPhone(customer) IN
         IF ~Truthy(rawPhone) THEN Null
         ELSE IF rawPhone.t # "string" THEN Throw   \* rawPhone.replace is not a function
         ELSE NormalizeCleaned(CleanPhone(rawPhone.s))

-----------------------------------------------------------------------------
\* getAdminDetails (index.js:155-174) over process.env.

\* The index of the first "," of s, 0 when there is none.
FirstComma(s) ==
    IF \E i \in 1..Len(s) : s[i] = ","
    THEN CHOOSE i \in 1..Len(s) : s[i] = "," /\ \A j \in 1..(i - 1) : s[j] # ","
    ELSE 0

RECURSIVE Split(_)
\* s.split(',')
Split(s) ==
    LET i == FirstComma(s) IN
    IF i = 0 THEN <<s>>
    ELSE <<SubSeq(s, 1, i - 1)>> \o Split(SubSeq(s, i + 1, Len(s)))

RECURSIVE TrimStart(_)
TrimStart(s) == IF s # <<>> /\ Head(s) = " " THEN TrimStart(Tail(s)) ELSE s

RECURSIVE TrimEnd(_)
TrimEnd(s) == IF s # <<>> /\ s[Len(s)] = " " THEN TrimEnd(SubSeq(s, 1, Len(s) - 1)) ELSE s

\* s.trim()
Trim(s) == TrimEnd(TrimStart(s))

\* list.map(x => x.trim())
TrimAll(list) == [i \in 1..Len(list) |-> Trim(list[i])]

\* list.filter(num => num.length > 0)
NonEmpty(list) == SelectSeq(list, LAMBDA x : Len(x) > 0)

\* list[index] || fallback (index counted from 1 here)
AtOr(list, index, fallback) ==
    IF index <= Len(list) /\ Len(list[index]) > 0 THEN list[index] ELSE fallback

\* num.startsWith('91') ? num : `91${num}`
AdminPhone(num) == IF StartsWith(num, <<"9", "1">>) THEN num ELSE <<"9", "1">> \o num

\* A variant that keeps the empty tokens of ADMIN_WHATSAPP_NUMBERS.
getAdminDetailsKeepsEmpty(e) ==
    IF ~Truthy(e.ADMIN_WHATSAPP_NUMBERS) THEN <<>>
    ELSE LET numbers == TrimAll(Split(e.ADMIN_WHATSAPP_NUMBERS.s))
             names == IF Truthy(e.ADMIN_NAMES)
                      THEN TrimAll(Split(e.ADMIN_NAMES.s)) ELSE <<>>
             contacts == IF Truthy(e.ADMIN_CONTACTS)
                         THEN TrimAll(Split(e.ADMIN_CONTACTS.s)) ELSE <<>>
         IN [index \in 1..Len(numbers) |->
                [phone |-> AdminPhone(numbers[index]),
                 name |-> AtOr(names, index, <<"A", "d", "m", "i", "n">>),
                 contact |-> AtOr(contacts, index, numbers[index])]]

getAdminDetails(e) ==
    IF ~Truthy(e.ADMIN_WHATSAPP_NUMBERS) THEN <<>>
    ELSE LET numbers == NonEmpty(TrimAll(Split(e.ADMIN_WHATSAPP_NUMBERS.s)))
             names == IF Truthy(e.ADMIN_NAMES)
                      THEN TrimAll(Split(e.ADMIN_NAMES.s)) ELSE <<>>
             contacts == IF Truthy(e.ADMIN_CONTACTS)
                         THEN TrimAll(Split(e.ADMIN_CONTACTS.s)) ELSE <<>>
         IN [index \in 1..Len(numbers) |->
                [phone |-> AdminPhone(numbers[index]),
                 name |-> AtOr(names, index, <<"A", "d", "m", "i", "n">>),
                 contact |-> AtOr(contacts, index, numbers[index])]]

-----------------------------------------------------------------------------
\* The configurations the model starts from.

Digit(i) == <<"0", "1", "2", "3", "4", "5", "6", "7", "8", "9">>[(i % 10) + 1]

\* The i-th admin's national number, name and contact as configured.
NumToken(i) == <<"9", "8", "7", "6", "5", "4", "3", "2", "1", Digit(i)>>
NameToken(i) == <<"A", Digit(i)>>
ContactToken(i) == <<"C", Digit(i)>>

RECURSIVE Join(_, _)
\* tokens.join(sep)
Join(tokens, sep) ==
    IF tokens = <<>> THEN <<>>
    ELSE IF Len(tokens) = 1 THEN tokens[1]
    ELSE tokens[1] \o sep \o Join(Tail(tokens), sep)

\* n admins written plainly: "n1,n2,n3", "A1,A2,A3", "C1,C2,C3".
PlainConfig(n) ==
    [ADMIN_WHATSAPP_NUMBERS |-> Str(Join([i \in 1..n |-> NumToken(i)], <<",">>)),
     ADMIN_NAMES |-> Str(Join([i \in 1..n |-> NameToken(i)], <<",">>)),
     ADMIN_CONTACTS |-> Str(Join([i \in 1..n |-> ContactToken(i)], <<",">>))]

\* n admins with blanks around the commas and an empty token after each number;
\* the names list is one short and there are no contacts.
GappyConfig(n) ==
    [ADMIN_WHATSAPP_NUMBERS |->
        Str(Join([i \in 1..n |-> <<" ">> \o NumToken(i) \o <<" ", ",">>], <<",">>) \o <<",">>),
     ADMIN_NAMES |-> Str(Join([i \in 1..(n - 1) |-> NameToken(i)], <<" ", ",">>)),
     ADMIN_CONTACTS |-> Undef]

\* n admins whose numbers already carry the "91" prefix; nothing else is set.
PrefixedConfig(n) ==
    [ADMIN_WHATSAPP_NUMBERS |->
        IF n = 0 THEN Undef
        ELSE Str(Join([i \in 1..n |-> <<"9", "1">> \o NumToken(i)], <<",">>)),
     ADMIN_NAMES |-> Undef,
     ADMIN_CONTACTS |-> Undef]

Configs ==
    {PlainConfig(n) : n \in 0..MaxAdmins}
    \cup {GappyConfig(n) : n \in 0..MaxAdmins}
    \cup {PrefixedConfig(n) : n \in 0..MaxAdmins}

-----------------------------------------------------------------------------
\* Order payloads (req.body). Every value carries the same fields whatever its
\* type, so that reading a property of a primitive yields undefined as it does
\* in JavaScript; reading a property of null/undefined is a TypeError, which
\* the handlers below test for before they read.

NoAddress == [t |-> "undefined", phone |-> Undef]
Address(phone) == [t |-> "object", phone |-> phone]

NoCustomer ==
    [t |-> "undefined", s |-> <<>>, phone |-> Undef, default_address |-> NoAddress,
     first_name |-> Undef, last_name |-> Undef]
\* customer: "abc", a truthy value that is not an object
PrimitiveCustomer == [NoCustomer EXCEPT !.t = "string", !.s = <<"abc">>]
Customer(phone, default_address) ==
    [t |-> "object", s |-> <<>>, phone |-> phone, default_address |-> default_address,
     first_name |-> Str(<<"Asha">>), last_name |-> Str(<<"Rao">>)]

NoArray == [t |-> "undefined", items |-> <<>>]
\* a truthy value that is not an array
NotArray == [t |-> "string", items |-> <<>>]
Array(items) == [t |-> "array", items |-> items]

NoItemFulfillment == [t |-> "undefined", tracking_number |-> Undef]
ItemFulfillment(n) == [t |-> "object", tracking_number |-> n]
NullItem == [t |-> "null", name |-> Undef, quantity |-> 0, fulfillment |-> NoItemFulfillment]
Item(name, quantity, fulfillment) ==
    [t |-> "object", name |-> Str(name), quantity |-> quantity, fulfillment |-> fulfillment]

NullFulfillment ==
    [t |-> "null", tracking_numbers |-> NoArray, tracking_number |-> Undef,
     tracking_urls |-> NoArray, tracking_url |-> Undef, tracking_company |-> Undef]
Fulfillment(numbers, number, urls, url, company) ==
    [t |-> "object", tracking_numbers |-> numbers, tracking_number |-> number,
     tracking_urls |-> urls, tracking_url |-> url, tracking_company |-> company]

NullShippingLine == [t |-> "null"]
ShippingLine == [t |-> "object"]

\* req.body null or absent
NullBody ==
    [t |-> "undefined", name |-> Undef, total_price |-> Undef, gateway |-> Undef,
     customer |-> NoCustomer, line_items |-> NoArray, fulfillments |-> NoArray,
     shipping_lines |-> NoArray]
\* req.body a JSON number or string
PrimitiveBody == [NullBody EXCEPT !.t = "number"]
\* req.body a JSON array
ArrayBody == [NullBody EXCEPT !.t = "array"]
Order(customer, line_items, fulfillments, shipping_lines) ==
    [t |-> "object", name |-> Str(<<"#1001">>), total_price |-> Str(<<"499.00">>),
     gateway |-> Undef, customer |-> customer, line_items |-> line_items,
     fulfillments |-> fulfillments, shipping_lines |-> shipping_lines]

\* typeof v === "object", v not null
IsObject(v) == v.t \in {"object", "array"}
\* !v
Falsy(v) == v.t \in {"undefined", "null"}

-----------------------------------------------------------------------------
\* extractTrackingInfo (index.js:182-264). k = "throw" is a TypeError.

TrackingThrow ==
    [k |-> "throw", trackingNumber |-> Undef, trackingLink |-> Undef,
     trackingCompany |-> Undef]

\* list && list.length > 0
HasEntries(list) == list.t = "array" /\ Len(list.items) > 0

\* A variant in which a later line item overwrites the number of an earlier one.
ItemTrackingNumbersLastWins(line_items) ==
    LET found == SelectSeq(line_items.items,
                           LAMBDA item : Truthy(item.fulfillment.tracking_number))
    IN [i \in 1..Len(found) |-> found[Len(found) + 1 - i]]

\* The line items that carry a tracking number, index.js:231-240: the first of
\* them sets trackingNumber when the fulfillments left it at "Not Available".
ItemTrackingNumbers(line_items) ==
    SelectSeq(line_items.items, LAMBDA item : Truthy(item.fulfillment.tracking_number))

extractTrackingInfo(order) ==
    LET fs == order.fulfillments
        f == fs.items[1]
        itemsScanned == ~Falsy(order.line_items) /\ order.line_items.t = "array"
        linesScanned == ~Falsy(order.shipping_lines) /\ order.shipping_lines.t = "array"
        fromFulfillment ==
            IF HasEntries(fs)
            THEN IF HasEntries(f.tracking_numbers) THEN f.tracking_numbers.items[1]
                 ELSE IF Truthy(f.tracking_number) THEN f.tracking_number
                 ELSE Str(<<"Not Available">>)
            ELSE Str(<<"Not Available">>)
        fromItems ==
            IF itemsScanned /\ ItemTrackingNumbers(order.line_items) # <<>>
            THEN ItemTrackingNumbers(order.line_items)[1].fulfillment.tracking_number
            ELSE Str(<<"Not Available">>)
    IN  \* fulfillment.id in the logging loop, index.js:188-197
        IF HasEntries(fs) /\ \E i \in 1..Len(fs.items) : fs.items[i].t = "null"
        THEN TrackingThrow
        \* item.fulfillment, index.js:233
        ELSE IF itemsScanned
                /\ \E i \in 1..Len(order.line_items.items) : order.line_items.items[i].t = "null"
        THEN TrackingThrow
        \* shipping.title, index.js:246
        ELSE IF linesScanned
                /\ \E i \in 1..Len(order.shipping_lines.items) :
                      order.shipping_lines.items[i].t = "null"
        THEN TrackingThrow
        ELSE [k |-> "ok",
              trackingNumber |->
                  IF fromFulfillment = Str(<<"Not Available">>) THEN fromItems
                  ELSE fromFulfillment,
              trackingLink |->
                  IF HasEntries(fs)
                  THEN IF HasEntries(f.tracking_urls) THEN f.tracking_urls.items[1]
                       ELSE IF Truthy(f.tracking_url) THEN f.tracking_url
                       ELSE Str(<<"No link">>)
                  ELSE Str(<<"No link">>),
              trackingCompany |->
                  IF HasEntries(fs) /\ Truthy(f.tracking_company) THEN f.tracking_company
                  ELSE Str(<<"Not specified">>)]

-----------------------------------------------------------------------------
\* The template parameters the handlers compose (index.js:428-474, 505-545).
\* A text the code never parses is a sequence of pieces, here a single one.

\* String(n) for the small numbers of the model
NumStr(n) == IF n < 10 THEN <<Digit(n)>> ELSE <<Digit(n \div 10), Digit(n)>>

\* `${value}` of a property that may be undefined
Text(v) == IF v.t = "string" THEN v.s ELSE <<"undefined">>

\* value || fallback, as a text
TextOr(v, fallback) == IF Truthy(v) THEN v ELSE Str(fallback)

\* `${i}. ${item.name} - ${item.quantity} nos`, index.js:442
AdminItemLine(i, item) ==
    NumStr(i) \o <<". ">> \o Text(item.name) \o <<" - ">> \o NumStr(item.quantity)
    \o <<" nos">>

\* `${i}. ${item.name} - ${item.quantity} no${item.quantity > 1 ? "s" : ""}`,
\* index.js:462 and 511
ItemLine(i, item) ==
    NumStr(i) \o <<". ">> \o Text(item.name) \o <<" - ">> \o NumStr(item.quantity)
    \o <<" no">> \o (IF item.quantity > 1 THEN <<"s">> ELSE <<>>)

\* item.name of a null item is a TypeError
ItemsThrow(line_items) ==
    \E i \in 1..Len(line_items.items) : line_items.items[i].t = "null"

\* products, index.js:440-444
Products(order) ==
    IF ~Falsy(order.line_items) /\ order.line_items.t = "array"
    THEN Str(Join([i \in 1..Len(order.line_items.items) |->
                      AdminItemLine(i, order.line_items.items[i])], <<", ">>))
    ELSE Str(<<"No items">>)

\* productsList and shippedItems, index.js:460-464 and 509-513
ProductsList(order) ==
    IF order.line_items.t = "array"
    THEN Str(Join([i \in 1..Len(order.line_items.items) |->
                      ItemLine(i, order.line_items.items[i])], <<", ">>))
    ELSE Str(<<"No items">>)

\* `${customer.first_name || ''} ${customer.last_name || ''}`.trim()
CustomerName(customer) ==
    Str(Trim((IF Truthy(customer.first_name) THEN customer.first_name.s ELSE <<>>)
             \o <<" ">>
             \o (IF Truthy(customer.last_name) THEN customer.last_name.s ELSE <<>>)))

\* The seven base parameters of admin_new_order, index.js:447-455. The orders of
\* the model carry no shipping or billing address.
CreateAdminParams(order) ==
    <<order.name,
      CustomerName(order.customer),
      Or(RawPhone(order.customer), Str(<<"Not Provided">>)),
      Str(<<"Address not provided">>),
      TextOr(order.gateway, <<"Not specified">>),
      Products(order),
      TextOr(order.total_price, <<"0">>)>>

\* The parameters of order_confirmation, index.js:469-474
CreateCustomerParams(order) ==
    <<TextOr(order.customer.first_name, <<"Customer">>),
      TextOr(order.name, <<"Order">>),
      TextOr(order.total_price, <<"N/A">>),
      ProductsList(order)>>

\* The parameters of order_fulfilled, index.js:524-530
FulfilledCustomerParams(order, tracking) ==
    <<TextOr(order.customer.first_name, <<"Customer">>),
      TextOr(order.name, <<"N/A">>),
      ProductsList(order),
      tracking.trackingNumber,
      tracking.trackingLink>>

\* The six base parameters of admin_order_fulfilled, index.js:538-545
FulfilledAdminParams(order, phone, tracking) ==
    <<TextOr(order.name, <<"N/A">>),
      TextOr(CustomerName(order.customer), <<"Customer">>),
      IF phone.k = "phone" /\ Len(phone.s) > 0 THEN Str(phone.s)
      ELSE Str(<<"Not Provided">>),
      ProductsList(order),
      tracking.trackingNumber,
      tracking.trackingLink>>

-----------------------------------------------------------------------------
\* The requests the model sends.

TenDigits == <<"9", "8", "7", "6", "5", "0", "0", "0", "0", "1">>

\* customer.phone as Shopify may deliver it.
HandlerPhones ==
    {Undef,
     Str(TenDigits),
     Str(<<"+", "9", "1", " ">> \o TenDigits),
     Str(<<"0">> \o TenDigits),
     Str(<<"4", "4">> \o TenDigits),
     Str(<<"1", "2", "3">>),
     Str(<<"9", "1", "7", "6", "5", "0", "0", "0", "0", "1">>),
     Str(<<" ">>),
     Num}

Customers ==
    {Customer(p, NoAddress) : p \in HandlerPhones}
    \cup {Customer(Undef, Address(p)) : p \in {Undef, Str(TenDigits), Num}}
    \cup {NoCustomer, PrimitiveCustomer}

OneItem == Array(<<Item(<<"Oil">>, 1, NoItemFulfillment)>>)
LineItemVariants ==
    {NoArray, NotArray, Array(<<>>),
     Array(<<Item(<<"Oil">>, 1, NoItemFulfillment), Item(<<"Balm">>, 2, NoItemFulfillment)>>),
     Array(<<Item(<<"Oil">>, 2, ItemFulfillment(Str(<<"TN-ITEM">>)))>>),
     Array(<<NullItem>>)}

OneFulfillment ==
    Array(<<Fulfillment(NoArray, Str(<<"TN1">>), NoArray, Str(<<"http://t/1">>),
                        Str(<<"BlueDart">>))>>)
FulfillmentVariants ==
    {NoArray, Array(<<>>), Array(<<NullFulfillment>>),
     Array(<<Fulfillment(Array(<<Str(<<"TN2">>)>>), Str(<<"TN1">>), Array(<<>>), Undef, Undef)>>)}

ShippingVariants == {NoArray, Array(<<ShippingLine>>), Array(<<NullShippingLine>>)}

PhoneCustomer == Customer(Str(TenDigits), NoAddress)
NoPhoneCustomer == Customer(Undef, NoAddress)
NumPhoneCustomer == Customer(Num, NoAddress)

Payloads ==
    {NullBody, PrimitiveBody, ArrayBody}
    \cup {Order(c, OneItem, OneFulfillment, NoArray) : c \in Customers}
    \cup {Order(c, li, OneFulfillment, NoArray) :
             c \in {PhoneCustomer, NoPhoneCustomer, NumPhoneCustomer}, li \in LineItemVariants}
    \cup {Order(c, OneItem, f, NoArray) :
             c \in {PhoneCustomer, NoPhoneCustomer}, f \in FulfillmentVariants}
    \cup {Order(PhoneCustomer, OneItem, OneFulfillment, sl) : sl \in ShippingVariants}

Routes == {"create", "fulfilled"}

\* crypto.createHmac("sha256", secret).update(rawBody).digest("base64"): a
\* value that the body determines and that no other body yields.
Digest(rawBody) == <<"hmac-sha256", rawBody>>

\* The x-shopify-hmac-sha256 headers a sender may put on a body: none, the
\* digest of that body, a digest of something else.
Headers(body) == {Undef, Str(Digest(body)), Str(<<"AAAA">>)}

NoRequest ==
    [route |-> "none", at |-> 0, keepAlive |-> FALSE, hmac |-> Undef,
     rawBody |-> NullBody, body |-> NullBody]

-----------------------------------------------------------------------------
\* The state after the module has been loaded.

Init ==
    /\ env \in Configs
    /\ now = 0
    /\ lastActivity = 0
    /\ req = NoRequest
    /\ pc = "idle"
    /\ entered = FALSE
    /\ validated = FALSE
    /\ adminDetails = <<>>
    /\ promises = <<>>
    /\ adminCall = "none"
    /\ custCall = "none"
    /\ custPhone = Null
    /\ posts = <<>>
    /\ http = <<>>
    /\ responses = <<>>
    /\ unitIn = Undef
    /\ unitOut = NoResult
    /\ keepAliveUrl = [t |-> "undefined", s |-> <<>>]
    /\ keepAliveInterval = StartKeepAlive(keepAliveUrl, now)
    /\ cycles = <<>>
    /\ ping = "none"
    /\ proc = "running"

-----------------------------------------------------------------------------
\* Promises and the try/catch blocks around the sends.

\* The promise of one recipient's async task once its axios.post has settled
\* (index.js:315-350): a rejection of axios.post is caught and logged inside
\* the task, so the task's promise is fulfilled either way.
AdminTaskSettle(outcome) == IF outcome = "error" THEN "fulfilled" ELSE "fulfilled"

\* A variant that settles as soon as any one of the promises has settled.
PromiseRace(ps) ==
    IF \E i \in 1..Len(ps) : ps[i] = "rejected" THEN "rejected"
    ELSE IF ps = <<>> \/ \E i \in 1..Len(ps) : ps[i] = "fulfilled" THEN "fulfilled"
    ELSE "pending"

\* Promise.all(ps): rejected as soon as one of ps is rejected, fulfilled once
\* all of them are, pending until then.
PromiseAll(ps) ==
    IF \E i \in 1..Len(ps) : ps[i] = "rejected" THEN "rejected"
    ELSE IF \A i \in 1..Len(ps) : ps[i] = "fulfilled" THEN "fulfilled"
    ELSE "pending"

\* How sendAdminWhatsapp ends once `await Promise.all(promises)` has settled
\* (index.js:352-356): a rejection is caught and logged.
SendAdminOutcome(all) == IF all = "rejected" THEN "returned" ELSE "returned"

\* A variant without the try/catch of index.js:268-298.
SendCustomerOutcomeUncaught(outcome) == IF outcome = "error" THEN "raised" ELSE "returned"

\* How sendCustomerWhatsapp ends once `await axios.post(...)` has settled
\* (index.js:271-298): a rejection is caught and logged.
SendCustomerOutcome(outcome) == IF outcome = "error" THEN "returned" ELSE "returned"

\* A variant that sends to the first recipient of the roster only.
AdminPostsFirstOnly(roster, template, baseParams) ==
    [i \in 1..(IF Len(roster) > 0 THEN 1 ELSE 0) |->
        [leg |-> "admin", idx |-> i, to |-> roster[i].phone, template |-> template,
         params |-> <<Str(roster[i].name)>> \o baseParams]]

\* A variant that builds the parameter list once, with the first recipient's name.
AdminPostsSharedParams(roster, template, baseParams) ==
    [i \in 1..Len(roster) |->
        [leg |-> "admin", idx |-> i, to |-> roster[i].phone, template |-> template,
         params |-> <<Str(roster[1].name)>> \o baseParams]]

\* A variant that posts to every recipient a second time.
AdminPostsTwice(roster, template, baseParams) ==
    LET once == [i \in 1..Len(roster) |->
                    [leg |-> "admin", idx |-> i, to |-> roster[i].phone,
                     template |-> template,
                     params |-> <<Str(roster[i].name)>> \o baseParams]]
    IN once \o once

\* The POSTs sendAdminWhatsapp issues: one to each of adminDetails, index.js:315-345.
AdminPosts(roster, template, baseParams) ==
    [i \in 1..Len(roster) |->
        [leg |-> "admin", idx |-> i, to |-> roster[i].phone, template |-> template,
         params |-> <<Str(roster[i].name)>> \o baseParams]]

-----------------------------------------------------------------------------
\* The gates of the handlers.

\* A variant that takes a missing header for a match.
VerifyPassesLax(r) == r.hmac.t = "undefined" \/ (r.hmac.t = "string" /\ r.hmac.s = Digest(r.rawBody))

\* digest === hmacHeader, index.js:98
VerifyPasses(r) == r.hmac.t = "string" /\ r.hmac.s = Digest(r.rawBody)

\* A variant of the create gate without the customer test of index.js:422.
CreateGateNoCustomerTest(order) ==
    IF Falsy(order) \/ ~IsObject(order) THEN "Invalid payload" ELSE "pass"

\* The 400 gates of /webhook/orders/create, index.js:416-425.
CreateGate(order) ==
    IF Falsy(order) \/ ~IsObject(order) THEN "Invalid payload"
    ELSE IF Falsy(order.customer) THEN "Missing customer info"
    ELSE "pass"

\* The 400 gate of /webhook/orders/fulfilled, index.js:499-503; order.customer
\* is read before it, a TypeError when order is null.
FulfilledGate(order) ==
    IF Falsy(order) THEN "throw"
    ELSE IF Falsy(order.customer) \/ ~IsObject(order.customer) THEN "Missing customer info"
    ELSE "pass"

\* A variant in which a missing phone is an error.
CustomerLegStrict(p) == IF p.k = "phone" /\ Len(p.s) > 0 THEN "send" ELSE "throw"

\* if (customerPhone) ... else ..., index.js:459 and 520, on getCustomerPhone's result.
CustomerLeg(p) ==
    IF p.k = "throw" THEN "throw"
    ELSE IF p.k = "phone" /\ Len(p.s) > 0 THEN "send"
    ELSE "skip"

\* Whether the create handler raises between its gate and the admin dispatch
\* (index.js:428-444): a property of undefined, or of a null line item.
CreateThrows(order) ==
    \/ Falsy(order)
    \/ Falsy(order.customer)
    \/ (~Falsy(order.line_items) /\ order.line_items.t = "array" /\ ItemsThrow(order.line_items))

\* Whether the fulfilled handler raises between its gate and its first send
\* (index.js:505-517).
FulfilledThrows(order) ==
    \/ getCustomerPhone(order.customer).k = "throw"
    \/ (order.line_items.t = "array" /\ ItemsThrow(order.line_items))
    \/ extractTrackingInfo(order).k = "throw"

-----------------------------------------------------------------------------
\* The steps of a request.

\* res.status(status).send(...)
Respond(status) ==
    /\ responses' = Append(responses, status)
    /\ pc' = "done"
    /\ UNCHANGED <<posts, http>>

\* A variant in which the exception leaves the handler and nothing is sent.
OnExceptionEscapes(r) == r

\* catch (error) { ...; res.status(500).send("Error processing webhook") },
\* index.js:483-486 and 550-553, on the responses sent so far.
OnException(r) == Append(r, 500)

\* An exception raised inside the handler's try block reaches its catch.
Catch ==
    /\ responses' = OnException(responses)
    /\ pc' = "done"
    /\ UNCHANGED <<posts, http>>

\* sendAdminWhatsapp up to `await Promise.all(promises)`, index.js:302-352:
\* every recipient's axios.post is issued before the first await.
StartAdminCall(template, baseParams) ==
    LET roster == getAdminDetails(env)
        sent == AdminPosts(roster, template, baseParams)
    IN /\ lastActivity' = now
       /\ adminDetails' = roster
       /\ adminCall' = "running"
       /\ promises' = [i \in 1..Len(sent) |-> "pending"]
       /\ posts' = posts \o sent
       /\ http' = http \o [i \in 1..Len(sent) |-> "pending"]
       /\ pc' = "awaitAdmin"
       /\ UNCHANGED responses

\* sendCustomerWhatsapp up to `await axios.post(...)`, index.js:267-294.
StartCustomerCall(phone, template, params) ==
    /\ lastActivity' = now
    /\ custCall' = "running"
    /\ posts' = Append(posts, [leg |-> "customer", idx |-> 0, to |-> phone,
                               template |-> template, params |-> params])
    /\ http' = Append(http, "pending")
    /\ pc' = "awaitCustomer"
    /\ UNCHANGED responses

\* A variant of the middleware that counts every request as activity.
ActivityMiddlewareCountsAll(keepAlive, last, t) == t

\* if (req.get('X-Keep-Alive') !== 'true') updateActivity(), index.js:71-77:
\* lastActivity after a request has passed the middleware at time t.
ActivityMiddleware(keepAlive, last, t) == IF keepAlive THEN last ELSE t

\* A request arrives at time now (req.at): the activity middleware, index.js:71-77.
Receive(route, keepAlive, header, body) ==
    /\ pc \in {"idle", "done"}
    /\ proc = "running"
    /\ req' = [route |-> route, at |-> now, keepAlive |-> keepAlive, hmac |-> header,
               rawBody |-> body, body |-> body]
    /\ lastActivity' = ActivityMiddleware(keepAlive, lastActivity, now)
    /\ pc' = "received"
    /\ entered' = FALSE
    /\ validated' = FALSE
    /\ adminDetails' = <<>>
    /\ promises' = <<>>
    /\ adminCall' = "none"
    /\ custCall' = "none"
    /\ custPhone' = Null
    /\ posts' = <<>>
    /\ http' = <<>>
    /\ responses' = <<>>
    /\ unitIn' = Undef
    /\ unitOut' = NoResult
    /\ UNCHANGED <<env, timerVars, now>>

\* verifyShopifyWebhook, index.js:91-107.
Verify ==
    /\ pc = "received"
    /\ req.route \in Routes
    /\ IF VerifyPasses(req)
       THEN pc' = "handler" /\ UNCHANGED responses
       ELSE responses' = Append(responses, 401) /\ pc' = "done"
    /\ UNCHANGED <<env, timerVars, now, lastActivity, req, entered, validated, adminDetails,
                   promises, adminCall, custCall, custPhone, posts, http, unitIn, unitOut>>

\* The customer leg of the create handler, index.js:457-486.
CreateCustomerLeg ==
    LET order == req.body
        p == getCustomerPhone(order.customer)
    IN /\ custPhone' = p
       /\ IF CustomerLeg(p) = "throw"
          THEN Catch /\ UNCHANGED <<lastActivity, custCall>>
          ELSE IF CustomerLeg(p) = "send"
          THEN StartCustomerCall(p.s, "order_confirmation", CreateCustomerParams(order))
          ELSE Respond(200) /\ UNCHANGED <<lastActivity, custCall>>

\* /webhook/orders/create up to `await sendAdminWhatsapp(...)`, index.js:406-455.
CreateHandler ==
    /\ pc = "handler"
    /\ req.route = "create"
    /\ entered' = TRUE
    /\ LET order == req.body IN
       IF CreateGate(order) # "pass"
       THEN /\ Respond(400)
            /\ lastActivity' = now
            /\ UNCHANGED <<validated, adminDetails, promises, adminCall>>
       ELSE /\ validated' = TRUE
            /\ IF CreateThrows(order)
               THEN /\ Catch
                    /\ lastActivity' = now
                    /\ UNCHANGED <<adminDetails, promises, adminCall>>
               ELSE StartAdminCall("admin_new_order", CreateAdminParams(order))
    /\ UNCHANGED <<env, timerVars, now, req, custCall, custPhone, unitIn, unitOut>>

\* /webhook/orders/fulfilled up to its first await, index.js:490-538.
FulfilledHandler ==
    /\ pc = "handler"
    /\ req.route = "fulfilled"
    /\ entered' = TRUE
    /\ LET order == req.body
           p == getCustomerPhone(order.customer)
       IN
       IF FulfilledGate(order) = "throw"
       THEN /\ Catch
            /\ lastActivity' = now
            /\ UNCHANGED <<validated, adminDetails, promises, adminCall, custCall, custPhone>>
       ELSE IF FulfilledGate(order) # "pass"
       THEN /\ Respond(400)
            /\ lastActivity' = now
            /\ UNCHANGED <<validated, adminDetails, promises, adminCall, custCall, custPhone>>
       ELSE /\ validated' = TRUE
            /\ custPhone' = p
            /\ IF FulfilledThrows(order) \/ CustomerLeg(p) = "throw"
               THEN /\ Catch
                    /\ lastActivity' = now
                    /\ UNCHANGED <<adminDetails, promises, adminCall, custCall>>
               ELSE IF CustomerLeg(p) = "send"
               THEN /\ StartCustomerCall(p.s, "order_fulfilled",
                                         FulfilledCustomerParams(order, extractTrackingInfo(order)))
                    /\ UNCHANGED <<adminDetails, promises, adminCall>>
               ELSE /\ StartAdminCall("admin_order_fulfilled",
                                      FulfilledAdminParams(order, p, extractTrackingInfo(order)))
                    /\ UNCHANGED custCall
    /\ UNCHANGED <<env, timerVars, now, req, unitIn, unitOut>>

\* The messaging API answers the i-th POST, or the transport fails: axios.post
\* settles, and with it the async task of an admin recipient.
HttpSettle(i, outcome) ==
    /\ i \in 1..Len(http)
    /\ http[i] = "pending"
    /\ http' = [http EXCEPT ![i] = outcome]
    /\ promises' = IF posts[i].leg = "admin"
                   THEN [promises EXCEPT ![posts[i].idx] = AdminTaskSettle(outcome)]
                   ELSE promises
    /\ UNCHANGED <<env, timerVars, now, lastActivity, req, pc, entered, validated, adminDetails,
                   adminCall, custCall, custPhone, posts, responses, unitIn, unitOut>>

\* `await Promise.all(promises)` settles and sendAdminWhatsapp ends; the
\* handler goes on, index.js:457-486 and 547-553.
AdminReturn ==
    /\ pc = "awaitAdmin"
    /\ PromiseAll(promises) # "pending"
    /\ adminCall' = SendAdminOutcome(PromiseAll(promises))
    /\ IF adminCall' = "raised"
       THEN Catch /\ UNCHANGED <<lastActivity, custCall, custPhone>>
       ELSE IF req.route = "create"
       THEN CreateCustomerLeg
       ELSE Respond(200) /\ UNCHANGED <<lastActivity, custCall, custPhone>>
    /\ UNCHANGED <<env, timerVars, now, req, entered, validated, adminDetails, promises,
                   unitIn, unitOut>>

\* The index in posts of the customer's POST.
CustomerPost == CHOOSE i \in 1..Len(posts) : posts[i].leg = "customer"

\* `await axios.post(...)` settles and sendCustomerWhatsapp ends; the handler
\* goes on, index.js:480-486 and 532-538.
CustomerReturn ==
    /\ pc = "awaitCustomer"
    /\ http[CustomerPost] # "pending"
    /\ custCall' = SendCustomerOutcome(http[CustomerPost])
    /\ IF custCall' = "raised"
       THEN /\ Catch
            /\ UNCHANGED <<lastActivity, adminDetails, promises, adminCall>>
       ELSE IF req.route = "create"
       THEN /\ Respond(200)
            /\ UNCHANGED <<lastActivity, adminDetails, promises, adminCall>>
       ELSE StartAdminCall("admin_order_fulfilled",
                           FulfilledAdminParams(req.body, custPhone,
                                                extractTrackingInfo(req.body)))
    /\ UNCHANGED <<env, timerVars, now, req, entered, validated, custPhone, unitIn, unitOut>>

Next ==
    \/ \E route \in Routes, body \in Payloads :
          \E header \in Headers(body) : Receive(route, FALSE, header, body)
    \/ Verify
    \/ CreateHandler
    \/ FulfilledHandler
    \/ \E i \in 1..Len(http), outcome \in {"ok", "error"} : HttpSettle(i, outcome)
    \/ AdminReturn
    \/ CustomerReturn

Spec == Init /\ [][Next]_vars

-----------------------------------------------------------------------------
\* getCustomerPhone on generated phone strings: called directly, and through
\* the two handlers with one admin configured.

Fill(n) == [i \in 1..n |-> "7"]

PhonePrefixes == {<<>>, <<"+">>, <<" ", "+">>, <<"+", "+">>}
PhoneLeads == {<<>>, <<"9", "1">>, <<"0">>, <<"1", "9">>, <<"9", " ", "1">>}

GeneratedPhones ==
    {Str(pre \o lead \o Fill(n)) : pre \in PhonePrefixes, lead \in PhoneLeads, n \in 0..MaxFill}
    \cup {Undef, Num}

GeneratedCustomers ==
    {Customer(p, NoAddress) : p \in GeneratedPhones}
    \cup {Customer(Undef, Address(p)) : p \in {Str(Fill(10)), Str(<<"0">> \o Fill(MaxFill))}}
    \cup {NoCustomer, PrimitiveCustomer}

InitPhone ==
    /\ env = PlainConfig(1)
    /\ now = 0
    /\ lastActivity = 0
    /\ req = NoRequest
    /\ pc = "idle"
    /\ entered = FALSE
    /\ validated = FALSE
    /\ adminDetails = <<>>
    /\ promises = <<>>
    /\ adminCall = "none"
    /\ custCall = "none"
    /\ custPhone = Null
    /\ posts = <<>>
    /\ http = <<>>
    /\ responses = <<>>
    /\ unitIn = Undef
    /\ unitOut = NoResult
    /\ keepAliveUrl = [t |-> "undefined", s |-> <<>>]
    /\ keepAliveInterval = StartKeepAlive(keepAliveUrl, now)
    /\ cycles = <<>>
    /\ ping = "none"
    /\ proc = "running"

\* getCustomerPhone(customer), called on its own.
CallGetCustomerPhone(customer) ==
    /\ pc = "idle"
    /\ unitOut.k = "none"
    /\ unitIn' = customer
    /\ unitOut' = getCustomerPhone(customer)
    /\ UNCHANGED <<env, timerVars, now, lastActivity, req, pc, entered, validated, adminDetails,
                   promises, adminCall, custCall, custPhone, posts, http, responses>>

NextPhone ==
    \/ \E customer \in GeneratedCustomers : CallGetCustomerPhone(customer)
    \/ \E route \in Routes, customer \in GeneratedCustomers :
          LET body == Order(customer, OneItem, OneFulfillment, NoArray)
          IN Receive(route, FALSE, Str(Digest(body)), body)
    \/ Verify
    \/ CreateHandler
    \/ FulfilledHandler
    \/ \E i \in 1..Len(http), outcome \in {"ok", "error"} : HttpSettle(i, outcome)
    \/ AdminReturn
    \/ CustomerReturn

SpecPhone == InitPhone /\ [][NextPhone]_vars

-----------------------------------------------------------------------------
\* Claims.

\* s is a 12-character string that begins with "91".
NormalizedShape(s) == Len(s) = 12 /\ StartsWith(s, <<"9", "1">>)

\* The phones getCustomerPhone has returned in this state: to a direct call,
\* to the handler, and as the address of a customer send.
ReturnedPhones ==
    (IF unitOut.k = "phone" THEN {unitOut.s} ELSE {})
    \cup (IF custPhone.k = "phone" THEN {custPhone.s} ELSE {})
    \cup {posts[i].to : i \in {j \in 1..Len(posts) : posts[j].leg = "customer"}}

\* The cleaned inputs of those calls.
CleanedInputs ==
    (IF unitOut.k = "phone" THEN {CleanPhone(RawPhone(unitIn).s)} ELSE {})
    \cup (IF custPhone.k = "phone" THEN {CleanPhone(RawPhone(req.body.customer).s)} ELSE {})

\* C10 as stated: whenever getCustomerPhone returns a phone, it is 12
\* characters long and begins with "91", and so is the address of every
\* customer send.
C10_NormalizedPhoneInvariant == \A s \in ReturnedPhones : NormalizedShape(s)

\* C10 amended: whenever getCustomerPhone returns a phone, it is exactly 12
\* characters long, and it begins with "91" unless the cleaned input was itself
\* a 12-character string, which is returned unchanged whatever its prefix; the
\* address of every customer send is such a phone.
C10_ReturnedPhoneIsTwelveLong ==
    \A s \in ReturnedPhones :
        /\ Len(s) = 12
        /\ StartsWith(s, <<"9", "1">>) \/ s \in CleanedInputs

\* A customer send addressed to a 12-character phone that does not begin with
\* "91", and a direct call that returned one.
C10_Witness ==
    \/ \E i \in 1..Len(posts) :
          posts[i].leg = "customer" /\ Len(posts[i].to) = 12
          /\ ~StartsWith(posts[i].to, <<"9", "1">>)
    \/ unitOut.k = "phone" /\ ~StartsWith(unitOut.s, <<"9", "1">>)


-----------------------------------------------------------------------------
\* Claims about the handling of a request.

\* The positions in posts of the POSTs of a leg.
PostsOf(leg) == {j \in 1..Len(posts) : posts[j].leg = leg}

\* The header of r is absent or differs from the digest of its body.
SignatureMismatch(r) == r.hmac.t = "undefined" \/ r.hmac.s # Digest(r.rawBody)

\* A request is being handled or has been answered.
Handling == pc # "idle" /\ req.route # "none"

\* C1: whatever sends fail, sendAdminWhatsapp has issued a POST to every
\* recipient of the roster by the time it awaits, and it never raises.
C1_FanoutIsolation ==
    adminCall # "none" =>
        /\ adminCall # "raised"
        /\ \A i \in 1..Len(getAdminDetails(env)) :
              \E j \in PostsOf("admin") :
                  posts[j].idx = i /\ posts[j].to = getAdminDetails(env)[i].phone

\* Three recipients, the second one's send failed, the first and the third
\* got theirs, and the call has returned.
C1_Witness ==
    /\ adminCall = "returned"
    /\ Len(adminDetails) = 3
    /\ \E j1, j2, j3 \in PostsOf("admin") :
          /\ posts[j1].idx = 1 /\ http[j1] = "ok"
          /\ posts[j2].idx = 2 /\ http[j2] = "error"
          /\ posts[j3].idx = 3 /\ http[j3] = "ok"

\* C2: sendAdminWhatsapp has ended only if no recipient's POST is pending.
C2_FanoutJoin ==
    adminCall \in {"returned", "raised"} =>
        \A j \in PostsOf("admin") : http[j] # "pending"

\* The call has returned from a roster of two or more with both a failed and
\* a successful send.
C2_Witness ==
    /\ adminCall = "returned"
    /\ Len(adminDetails) >= 2
    /\ \E j, k \in PostsOf("admin") : http[j] = "error" /\ http[k] = "ok"

\* C3: a call of sendCustomerWhatsapp issues exactly one POST, never raises,
\* and issues no second POST after a failure.
C3_CustomerSendOnceNeverRaises ==
    /\ custCall # "raised"
    /\ custCall = "none" => PostsOf("customer") = {}
    /\ custCall # "none" => Cardinality(PostsOf("customer")) = 1

\* sendCustomerWhatsapp has returned from a POST that failed.
C3_Witness ==
    /\ custCall = "returned"
    /\ \E j \in PostsOf("customer") : http[j] = "error"

\* Whether the handler raises on the payload of r, whatever the sends do.
RaisesOn(r) ==
    IF r.route = "create"
    THEN CreateThrows(r.body) \/ getCustomerPhone(r.body.customer).k = "throw"
    ELSE FulfilledThrows(r.body)

\* C4 as stated: every payload that passes validation is answered 200.
C4_ValidatedIsAnswered200 == (pc = "done" /\ validated) => responses = <<200>>

\* C4 amended: the response to a payload that passes validation depends on
\* the payload alone and not on which sends fail: 500 when the handler raises
\* on the payload, 200 otherwise.
C4_ResponseIndependentOfDelivery ==
    (pc = "done" /\ validated) =>
        responses = <<IF RaisesOn(req) THEN 500 ELSE 200>>

\* A request answered 200 all of whose sends, admin and customer, failed.
C4_Witness ==
    /\ pc = "done"
    /\ responses = <<200>>
    /\ PostsOf("admin") # {}
    /\ PostsOf("customer") # {}
    /\ \A j \in 1..Len(posts) : http[j] = "error"

\* C5: once sendAdminWhatsapp has been called, the response is 200.
C5_SuccessAfterAdminDispatch ==
    (pc = "done" /\ adminCall # "none") => responses = <<200>>

\* C6: a payload without customer is answered 400 and no POST is issued.
C6_MissingCustomerIs400 ==
    (Handling /\ ~SignatureMismatch(req) /\ ~Falsy(req.body) /\ Falsy(req.body.customer)) =>
        /\ posts = <<>>
        /\ adminCall = "none" /\ custCall = "none"
        /\ pc = "done" => responses = <<400>>

\* An order object without customer has been answered 400.
C6_Witness ==
    /\ pc = "done"
    /\ req.body.t = "object"
    /\ Falsy(req.body.customer)
    /\ responses = <<400>>

\* C7: a request whose signature header is absent or wrong is answered 401
\* and the handler body is never entered.
C7_BadSignatureIs401 ==
    (Handling /\ SignatureMismatch(req)) =>
        /\ pc \in {"received", "done"}
        /\ ~entered /\ ~validated
        /\ posts = <<>>
        /\ adminCall = "none" /\ custCall = "none"
        /\ pc = "done" => responses = <<401>>

\* A request without the header has been answered 401.
C7_Witness ==
    /\ pc = "done"
    /\ req.route # "none"
    /\ req.hmac.t = "undefined"
    /\ responses = <<401>>

\* C8: a payload that is not an object is answered 400 on both routes, and so
\* is a customer that is not an object on the fulfilled route.
C8_MalformedPayloadIs400 ==
    (pc = "done" /\ ~SignatureMismatch(req)
     /\ \/ ~IsObject(req.body)
        \/ req.route = "fulfilled" /\ ~IsObject(req.body.customer)) =>
        responses = <<400>>

\* The customer's phone is absent, or getCustomerPhone rejects it.
PhoneAbsentOrRejected(customer) ==
    LET raw == RawPhone(customer) IN
    \/ ~Truthy(raw)
    \/ raw.t = "string" /\ NormalizeCleaned(CleanPhone(raw.s)).k = "null"

\* The order has no null entry in its lists.
WellFormedOrder(order) ==
    /\ \A i \in 1..Len(order.line_items.items) : order.line_items.items[i].t # "null"
    /\ \A i \in 1..Len(order.fulfillments.items) : order.fulfillments.items[i].t # "null"
    /\ \A i \in 1..Len(order.shipping_lines.items) : order.shipping_lines.items[i].t # "null"

\* C9: a valid order whose customer phone is absent or rejected gets no
\* customer send, gets the admin dispatch, and is answered 200.
C9_PhoneFailureSkipsCustomerLeg ==
    (pc = "done" /\ validated /\ WellFormedOrder(req.body)
     /\ PhoneAbsentOrRejected(req.body.customer)) =>
        /\ responses = <<200>>
        /\ PostsOf("customer") = {}
        /\ custCall = "none"
        /\ adminCall = "returned"
        /\ Cardinality(PostsOf("admin")) = Len(getAdminDetails(env))

\* An order whose phone string was rejected has been answered 200 after the
\* admins were sent to.
C9_Witness ==
    /\ pc = "done"
    /\ validated
    /\ Truthy(RawPhone(req.body.customer))
    /\ custPhone.k = "null"
    /\ PostsOf("admin") # {}
    /\ responses = <<200>>


-----------------------------------------------------------------------------
\* Claims about getCustomerPhone as a function.

\* The input string without its blanks and without one leading "+".
Stripped(chars) ==
    LET noBlank == SelectSeq(chars, LAMBDA ch : ch # " ")
    IN IF Len(noBlank) > 0 /\ noBlank[1] = "+" THEN SubSeq(noBlank, 2, Len(noBlank))
       ELSE noBlank

\* The reference algorithm on a stripped string, by its length.
ReferencePhone(c) ==
    CASE Len(c) < 10 -> Null
      [] Len(c) = 10 -> IF c[1] = "9" /\ c[2] = "1" THEN Null ELSE Phone(<<"9", "1">> \o c)
      [] Len(c) = 11 -> IF c[1] = "0" THEN Phone(<<"9", "1">> \o SubSeq(c, 2, 11)) ELSE Null
      [] Len(c) = 12 -> Phone(c)
      [] OTHER -> Null

\* C11: on every input string getCustomerPhone returns what the reference
\* algorithm returns: under 10 characters fail, 10 not starting with "91" get
\* "91" prepended, 12 are returned unchanged, "0" plus 10 yields "91" plus the
\* last 10, everything else fails.
C11_AgreesWithReference ==
    /\ (unitOut.k # "none" /\ RawPhone(unitIn).t = "string") =>
          unitOut = ReferencePhone(Stripped(RawPhone(unitIn).s))
    /\ (custCall # "none" /\ RawPhone(req.body.customer).t = "string") =>
          custPhone = ReferencePhone(Stripped(RawPhone(req.body.customer).s))

\* A direct call on "0" followed by 10 characters, written with a "+" and a
\* blank, has returned "91" and the last 10.
C11_Witness ==
    /\ unitOut.k = "phone"
    /\ RawPhone(unitIn).s # Stripped(RawPhone(unitIn).s)
    /\ Len(Stripped(RawPhone(unitIn).s)) = 11
    /\ unitOut.s = <<"9", "1">> \o SubSeq(Stripped(RawPhone(unitIn).s), 2, 11)

-----------------------------------------------------------------------------
\* extractTrackingInfo on generated orders, called directly.

NoTracking ==
    [k |-> "none", trackingNumber |-> Undef, trackingLink |-> Undef,
     trackingCompany |-> Undef]

\* tracking_numbers / tracking_urls as a fulfillment may carry them
TrackingLists(value) ==
    {NoArray, Array(<<>>), Array(<<Str(value)>>), Array(<<Str(<<>>)>>), Array(<<JsNull>>)}
\* tracking_number / tracking_url / tracking_company
TrackingScalars(value) == {Undef, JsNull, Str(value), Str(<<>>)}

GeneratedFulfillments ==
    {Fulfillment(ns, n, NoArray, Str(<<"http://t/1">>), Str(<<"BlueDart">>)) :
        ns \in TrackingLists(<<"TN2">>), n \in TrackingScalars(<<"TN1">>)}
    \cup {Fulfillment(NoArray, n, NoArray, Undef, c) :
        n \in {Undef, Num, Str(<<"Not Available">>)}, c \in TrackingScalars(<<"BlueDart">>)}
    \cup {Fulfillment(Array(<<Str(<<"TN2">>)>>), Undef, us, u, Undef) :
        us \in TrackingLists(<<"http://t/2">>), u \in TrackingScalars(<<"http://t/1">>)}

GeneratedFulfillmentLists ==
    {NoArray, Array(<<>>), Array(<<NullFulfillment>>)}
    \cup {Array(<<f>>) : f \in GeneratedFulfillments}
    \cup {Array(<<f, NullFulfillment>>) : f \in {OneFulfillment.items[1]}}

GeneratedLineItems ==
    LineItemVariants
    \cup {Array(<<Item(<<"Oil">>, 1, NoItemFulfillment),
                  Item(<<"Balm">>, 1, ItemFulfillment(Str(<<"TN-A">>))),
                  Item(<<"Tea">>, 1, ItemFulfillment(Str(<<"TN-B">>)))>>),
          Array(<<Item(<<"Oil">>, 1, ItemFulfillment(Str(<<>>)))>>),
          Array(<<Item(<<"Oil">>, 1, ItemFulfillment(Str(<<"TN-A">>))), NullItem>>)}

GeneratedShippingLines == ShippingVariants \cup {NotArray, Array(<<>>)}

GeneratedOrders ==
    {Order(PhoneCustomer, li, f, sl) :
        li \in GeneratedLineItems, f \in GeneratedFulfillmentLists,
        sl \in GeneratedShippingLines}

InitTracking ==
    /\ env = PlainConfig(1)
    /\ now = 0
    /\ lastActivity = 0
    /\ req = NoRequest
    /\ pc = "idle"
    /\ entered = FALSE
    /\ validated = FALSE
    /\ adminDetails = <<>>
    /\ promises = <<>>
    /\ adminCall = "none"
    /\ custCall = "none"
    /\ custPhone = Null
    /\ posts = <<>>
    /\ http = <<>>
    /\ responses = <<>>
    /\ unitIn = NullBody
    /\ unitOut = NoTracking
    /\ keepAliveUrl = Undef
    /\ keepAliveInterval = StartKeepAlive(keepAliveUrl, now)
    /\ cycles = <<>>
    /\ ping = "none"
    /\ proc = "running"

\* extractTrackingInfo(order), called on its own.
CallExtractTrackingInfo(order) ==
    /\ pc = "idle"
    /\ unitOut.k = "none"
    /\ unitIn' = order
    /\ unitOut' = extractTrackingInfo(order)
    /\ UNCHANGED <<env, timerVars, now, lastActivity, req, pc, entered, validated,
                   adminDetails, promises, adminCall, custCall, custPhone, posts, http,
                   responses>>

NextTracking == \E order \in GeneratedOrders : CallExtractTrackingInfo(order)

SpecTracking == InitTracking /\ [][NextTracking]_vars

\* A present, non-empty string.
NonEmptyString(v) == v.t = "string" /\ Len(v.s) > 0

\* C12: each of the three fields extractTrackingInfo returns is a present,
\* non-empty string, the sentinel when the source field is missing or empty.
C12_TrackingFieldsNonEmpty ==
    unitOut.k = "ok" =>
        /\ NonEmptyString(unitOut.trackingNumber)
        /\ NonEmptyString(unitOut.trackingLink)
        /\ NonEmptyString(unitOut.trackingCompany)

\* C13: extractTrackingInfo never raises, whatever is missing or null in the
\* order.
C13_ExtractNeverRaises == unitOut.k # "throw"

\* A list with a null entry that the code walks.
HasNullEntry(list) ==
    list.t = "array" /\ \E i \in 1..Len(list.items) : list.items[i].t = "null"

\* The tracking number embedded in the first line item that carries one.
EmbeddedNumbers(order) ==
    IF order.line_items.t # "array" THEN <<>>
    ELSE SelectSeq(order.line_items.items,
                   LAMBDA item : item.t = "object" /\ item.fulfillment.t = "object"
                                 /\ item.fulfillment.tracking_number.t = "string"
                                 /\ item.fulfillment.tracking_number.s # <<>>)

NoFulfillments(order) ==
    order.fulfillments.t # "array" \/ order.fulfillments.items = <<>>

\* C14 as stated: what extractTrackingInfo returns for an order without
\* fulfillments is exactly the three defaults, whatever its line items and
\* shipping lines contain (that it returns at all is C13).
C14_NoFulfillmentsAllDefaults ==
    (unitOut.k = "ok" /\ NoFulfillments(unitIn)) =>
        unitOut = [k |-> "ok", trackingNumber |-> Str(<<"Not Available">>),
                   trackingLink |-> Str(<<"No link">>),
                   trackingCompany |-> Str(<<"Not specified">>)]

\* C14 as amended: for an order without fulfillments the link and the company
\* are their defaults and the number is the one embedded in the first line
\* item that carries one, "Not Available" when none does; the call raises
\* instead when a line item or a shipping line is null.
C14_NoFulfillmentsLineItemFallback ==
    (unitOut.k # "none" /\ NoFulfillments(unitIn)) =>
        IF HasNullEntry(unitIn.line_items) \/ HasNullEntry(unitIn.shipping_lines)
        THEN unitOut.k = "throw"
        ELSE unitOut =
               [k |-> "ok",
                trackingNumber |->
                    IF EmbeddedNumbers(unitIn) = <<>> THEN Str(<<"Not Available">>)
                    ELSE EmbeddedNumbers(unitIn)[1].fulfillment.tracking_number,
                trackingLink |-> Str(<<"No link">>),
                trackingCompany |-> Str(<<"Not specified">>)]

\* An order without fulfillments whose second and third line items carry
\* tracking numbers has been given the second item's.
C14_Witness ==
    /\ unitOut.k = "ok"
    /\ NoFulfillments(unitIn)
    /\ Len(EmbeddedNumbers(unitIn)) = 2
    /\ unitOut.trackingNumber = Str(<<"TN-A">>)

-----------------------------------------------------------------------------
\* getAdminDetails on generated configurations, called directly.

\* How a slot between two commas of ADMIN_WHATSAPP_NUMBERS may be written.
SlotKinds == {"empty", "plain", "prefixed", "spaced", "leading91"}

NumberSlot(kind, i) ==
    CASE kind = "empty" -> <<>>
      [] kind = "plain" -> NumToken(i)
      [] kind = "prefixed" -> <<"9", "1">> \o NumToken(i)
      \* a 10-digit national number that begins with 91
      [] kind = "leading91" -> <<"9", "1", "2", "3", "4", "5", "6", "7", "8", Digit(i)>>
      [] OTHER -> <<" ">> \o NumToken(i) \o <<" ">>

\* The slot layouts of up to MaxAdmins slots.
SlotLayouts == UNION {[1..n -> SlotKinds] : n \in 0..MaxAdmins}

\* How ADMIN_NAMES and ADMIN_CONTACTS may be written next to a layout: not
\* set, one entry per slot, the last slot's entry left out.
ListStyles == {"unset", "perSlot", "short"}

ParallelList(style, tokens) ==
    CASE style = "unset" -> Undef
      [] style = "perSlot" -> Str(Join(tokens, <<",">>))
      [] OTHER -> Str(Join(SubSeq(tokens, 1, Len(tokens) - 1), <<",">>))

GeneratedConfig(layout, nameStyle, contactStyle) ==
    LET n == Len(layout) IN
    [ADMIN_WHATSAPP_NUMBERS |->
        IF n = 0 THEN Undef
        ELSE Str(Join([i \in 1..n |-> NumberSlot(layout[i], i)], <<",">>)),
     ADMIN_NAMES |-> ParallelList(nameStyle, [i \in 1..n |-> NameToken(i)]),
     ADMIN_CONTACTS |-> ParallelList(contactStyle, [i \in 1..n |-> ContactToken(i)])]

GeneratedConfigs ==
    {GeneratedConfig(layout, ns, cs) :
        layout \in SlotLayouts, ns \in ListStyles, cs \in ListStyles}

NoRoster == [k |-> "none", roster |-> <<>>]

InitAdmin ==
    /\ env \in GeneratedConfigs
    /\ now = 0
    /\ lastActivity = 0
    /\ req = NoRequest
    /\ pc = "idle"
    /\ entered = FALSE
    /\ validated = FALSE
    /\ adminDetails = <<>>
    /\ promises = <<>>
    /\ adminCall = "none"
    /\ custCall = "none"
    /\ custPhone = Null
    /\ posts = <<>>
    /\ http = <<>>
    /\ responses = <<>>
    /\ unitIn = Undef
    /\ unitOut = NoRoster
    /\ keepAliveUrl = Undef
    /\ keepAliveInterval = StartKeepAlive(keepAliveUrl, now)
    /\ cycles = <<>>
    /\ ping = "none"
    /\ proc = "running"

\* getAdminDetails(), called on its own.
CallGetAdminDetails ==
    /\ pc = "idle"
    /\ unitOut.k = "none"
    /\ unitOut' = [k |-> "ok", roster |-> getAdminDetails(env)]
    /\ UNCHANGED <<env, timerVars, now, lastActivity, req, pc, entered, validated,
                   adminDetails, promises, adminCall, custCall, custPhone, posts, http,
                   responses, unitIn>>

NextAdmin == CallGetAdminDetails

SpecAdmin == InitAdmin /\ [][NextAdmin]_vars

\* The comma-separated tokens of a configuration string, blanks stripped.
Tokens(v) == IF v.t = "string" /\ Len(v.s) > 0 THEN TrimAll(Split(v.s)) ELSE <<>>

\* The positions of the numbers list that hold a non-empty token, in order.
RECURSIVE NonEmptyPositions(_, _)
NonEmptyPositions(tokens, from) ==
    IF from > Len(tokens) THEN <<>>
    ELSE IF tokens[from] # <<>> THEN <<from>> \o NonEmptyPositions(tokens, from + 1)
    ELSE NonEmptyPositions(tokens, from + 1)

\* C15: getAdminDetails returns one recipient per non-empty number token, in
\* configuration order, and the recipient of the number token at position i
\* takes its name and contact from position i of the names and contacts lists
\* ("Admin" and the raw number token when that position is missing), empty
\* tokens between commas included.
C15_AdminIndexAlignment ==
    unitOut.k = "ok" =>
        LET numbers == Tokens(env.ADMIN_WHATSAPP_NUMBERS)
            names == Tokens(env.ADMIN_NAMES)
            contacts == Tokens(env.ADMIN_CONTACTS)
            at == NonEmptyPositions(numbers, 1)
        IN /\ Len(unitOut.roster) = Len(at)
           /\ \A k \in 1..Len(at) :
                 /\ unitOut.roster[k].name =
                        IF at[k] <= Len(names) /\ names[at[k]] # <<>> THEN names[at[k]]
                        ELSE <<"A", "d", "m", "i", "n">>
                 /\ unitOut.roster[k].contact =
                        IF at[k] <= Len(contacts) /\ contacts[at[k]] # <<>>
                        THEN contacts[at[k]]
                        ELSE numbers[at[k]]

-----------------------------------------------------------------------------
\* The keep-alive monitor, the routes without a signature, the clock and the
\* end of the process.

\* The routes served without verifyShopifyWebhook, index.js:557-609.
SimpleRoutes == {"health", "activity-status", "test", "test-tracking"}

\* /health, /activity-status, /test and /test-tracking, index.js:557-609. The
\* body of a /test-tracking request stands for its order property; an
\* exception of extractTrackingInfo reaches the framework, which answers 500.
SimpleHandler ==
    /\ proc = "running"
    /\ pc = "received"
    /\ req.route \in SimpleRoutes
    /\ lastActivity' = IF req.route \in {"test", "test-tracking"} THEN now ELSE lastActivity
    /\ responses' =
          Append(responses,
                 IF req.route = "test-tracking" /\ ~Falsy(req.body)
                    /\ extractTrackingInfo(req.body).k = "throw"
                 THEN 500 ELSE 200)
    /\ pc' = "done"
    /\ UNCHANGED <<env, timerVars, now, req, entered, validated, adminDetails, promises,
                   adminCall, custCall, custPhone, posts, http, unitIn, unitOut>>

\* A variant that pings from the threshold on.
InactiveAtThreshold(elapsed) == elapsed >= INACTIVITY_THRESHOLD

\* timeSinceLastActivity > INACTIVITY_THRESHOLD, index.js:30
Inactive(elapsed) == elapsed > INACTIVITY_THRESHOLD

\* The timer of setInterval is due.
TimerDue == keepAliveInterval.state = "armed" /\ keepAliveInterval.due = now

\* The timer fires and sendKeepAlive runs up to its `await fetch(...)`,
\* index.js:25-43; the timer is due again one interval later.
SendKeepAlive ==
    /\ proc = "running"
    /\ TimerDue
    /\ cycles' = Append(cycles, [at |-> now, last |-> lastActivity,
                                 gets |-> IF Inactive(now - lastActivity) THEN 1 ELSE 0,
                                 outcome |-> IF Inactive(now - lastActivity)
                                             THEN "pending" ELSE "none"])
    /\ ping' = IF Inactive(now - lastActivity) THEN "pending" ELSE ping
    /\ keepAliveInterval' =
          [keepAliveInterval EXCEPT !.due = keepAliveInterval.due + KEEP_ALIVE_INTERVAL]
    /\ UNCHANGED <<env, keepAliveUrl, proc, now, lastActivity, req, pc, entered,
                   validated, adminDetails, promises, adminCall, custCall, custPhone,
                   posts, http, responses, unitIn, unitOut>>

\* A variant without the try/catch of index.js:26-61: a failed fetch rejects
\* the promise of sendKeepAlive, and the unhandled rejection ends the process.
PingOutcomeUncaught(outcome) ==
    IF outcome \in {"error", "abort"} THEN "raised" ELSE "returned"

\* How sendKeepAlive ends once `await fetch(...)` has settled, index.js:45-61:
\* a response, ok or not, is logged; a transport error or the abort of the
\* 10 second timeout is caught and logged.
PingOutcome(outcome) ==
    IF outcome \in {"error", "abort"} THEN "returned" ELSE "returned"

\* The fetch of sendKeepAlive settles and sendKeepAlive ends.
PingSettle(outcome) ==
    /\ proc = "running"
    /\ ping = "pending"
    /\ outcome \in {"ok", "status", "error", "abort"}
    /\ ping' = "none"
    /\ cycles' = [cycles EXCEPT ![Len(cycles)].outcome = outcome]
    /\ proc' = IF PingOutcome(outcome) = "raised" THEN "crashed" ELSE proc
    /\ UNCHANGED <<env, keepAliveUrl, keepAliveInterval, now, lastActivity,
                   req, pc, entered, validated, adminDetails, promises, adminCall,
                   custCall, custPhone, posts, http, responses, unitIn, unitOut>>

\* A minute of the process's life passes. A due timer fires first, a pending
\* fetch has settled or been aborted long before, and a request is handled
\* within the minute in which it arrives.
Tick ==
    /\ proc = "running"
    /\ pc \in {"idle", "done"}
    /\ now < MaxTime
    /\ ~TimerDue
    /\ ping = "none"
    /\ now' = now + 1
    /\ UNCHANGED <<env, timerVars, lastActivity, req, pc, entered, validated,
                   adminDetails, promises, adminCall, custCall, custPhone, posts, http,
                   responses, unitIn, unitOut>>

\* A termination signal ends the process: the module installs no handler for
\* it and never calls clearInterval(keepAliveInterval).
Terminate ==
    /\ proc = "running"
    /\ proc' = "exited"
    /\ UNCHANGED <<env, keepAliveUrl, keepAliveInterval, cycles, ping, now, lastActivity,
                   req, pc, entered, validated, adminDetails, promises, adminCall,
                   custCall, custPhone, posts, http, responses, unitIn, unitOut>>

KeepAliveOrder == Order(PhoneCustomer, OneItem, OneFulfillment, NoArray)

InitKeepAlive ==
    /\ env = PlainConfig(1)
    /\ now = 0
    /\ lastActivity = now
    /\ req = NoRequest
    /\ pc = "idle"
    /\ entered = FALSE
    /\ validated = FALSE
    /\ adminDetails = <<>>
    /\ promises = <<>>
    /\ adminCall = "none"
    /\ custCall = "none"
    /\ custPhone = Null
    /\ posts = <<>>
    /\ http = <<>>
    /\ responses = <<>>
    /\ unitIn = Undef
    /\ unitOut = NoResult
    /\ keepAliveUrl \in {Undef, Str(<<"https://app.example">>)}
    /\ keepAliveInterval = StartKeepAlive(keepAliveUrl, now)
    /\ cycles = <<>>
    /\ ping = "none"
    /\ proc = "running"

NextKeepAlive ==
    \/ \E route \in SimpleRoutes, keepAlive \in BOOLEAN :
          Receive(route, keepAlive, Undef,
                  IF route = "test-tracking" THEN KeepAliveOrder ELSE NullBody)
    \/ \E route \in Routes, keepAlive \in BOOLEAN :
          Receive(route, keepAlive, Str(Digest(KeepAliveOrder)), KeepAliveOrder)
    \/ SimpleHandler
    \/ proc = "running" /\ Verify
    \/ proc = "running" /\ CreateHandler
    \/ proc = "running" /\ FulfilledHandler
    \/ proc = "running" /\ \E i \in 1..Len(http) : HttpSettle(i, "ok")
    \/ proc = "running" /\ AdminReturn
    \/ proc = "running" /\ CustomerReturn
    \/ SendKeepAlive
    \/ \E outcome \in {"ok", "status", "error", "abort"} : PingSettle(outcome)
    \/ Tick
    \/ Terminate

SpecKeepAlive == InitKeepAlive /\ [][NextKeepAlive]_vars

\* C16 as stated: a cycle that runs when more than the threshold has elapsed
\* since the last activity issues exactly one keep-alive GET, and when a
\* request without the marker arrives immediately after that cycle, the next
\* periodic cycle issues none.
C16_NextCycleIssuesNone ==
    \A i \in 1..Len(cycles) :
        /\ cycles[i].at - cycles[i].last > INACTIVITY_THRESHOLD => cycles[i].gets = 1
        /\ (/\ i < Len(cycles)
            /\ cycles[i].gets = 1
            /\ req.route # "none" /\ ~req.keepAlive /\ req.at = cycles[i].at)
           => cycles[i + 1].gets = 0

\* C16 as amended: a cycle issues exactly one keep-alive GET when more than
\* the threshold has elapsed since the last activity and none otherwise;
\* cycles run one check interval apart, so the cycle after an activity that
\* follows a cycle immediately, with none after it, issues a GET again.
C16_CycleIssuesGetIffInactive ==
    \A i \in 1..Len(cycles) :
        /\ cycles[i].gets =
              IF cycles[i].at - cycles[i].last > INACTIVITY_THRESHOLD THEN 1 ELSE 0
        /\ cycles[i].at = i * KEEP_ALIVE_INTERVAL
        /\ (i < Len(cycles) /\ cycles[i + 1].last = cycles[i].at) => cycles[i + 1].gets = 1

\* A cycle has issued a GET, a request without the marker has arrived in the
\* same minute after it and nothing since, and the next cycle has issued a GET.
C16_Witness ==
    /\ Len(cycles) = 2
    /\ cycles[1].gets = 1
    /\ req.route # "none" /\ ~req.keepAlive /\ req.at = cycles[1].at
    /\ cycles[2].last = cycles[1].at
    /\ cycles[2].gets = 1

\* C17: handling a request that carries X-Keep-Alive: true leaves lastActivity
\* unchanged on whatever route it arrives, and the arrival of a request
\* without the marker sets lastActivity to the current time.
C17_MarkerNeverCountsAsActivity ==
    [][/\ req'.keepAlive => lastActivity' = lastActivity
       /\ (pc' = "received" /\ ~req'.keepAlive) => lastActivity' = now']_vars

\* C19: when the process has exited on a termination signal, it has cancelled
\* the periodic keep-alive timer.
C19_TimerCancelledBeforeExit ==
    proc = "exited" => keepAliveInterval.state \in {"null", "cleared"}

-----------------------------------------------------------------------------
\* The steps by which the program resumes after an await. HttpSettle is not
\* one of them: it is the messaging API's answer or the transport's failure,
\* and axios.post is given no timeout (index.js:271-294, 322-345) that would
\* settle it otherwise.
ResumeStep == AdminReturn \/ CustomerReturn

\* C18: no operation blocks indefinitely: while a request that has passed the
\* signature check waits in a sendAdminWhatsapp / sendCustomerWhatsapp call,
\* the program can resume by itself, so that the call returns and the request
\* is answered even when the messaging API never answers a POST.
C18_NothingBlocksIndefinitely ==
    (pc \in {"awaitAdmin", "awaitCustomer"}) => ENABLED ResumeStep

-----------------------------------------------------------------------------
\* Whether the handler body raises on the request r: on its payload past the
\* gates, or on a null order before the gate of the fulfilled route.
HandlerRaises(r) ==
    \/ r.route = "fulfilled" /\ Falsy(r.body)
    \/ /\ r.route = "create" => CreateGate(r.body) = "pass"
       /\ r.route = "fulfilled" => FulfilledGate(r.body) = "pass"
       /\ RaisesOn(r)

\* C20: an exception raised inside the body of an order handler is caught and
\* answered with 500: the request ends with that one response, and the
\* process is still running and ready for the next request.
C20_ExceptionIsCaughtAs500 ==
    /\ (pc = "done" /\ entered /\ HandlerRaises(req)) => responses = <<500>>
    /\ pc = "done" => (Len(responses) = 1 /\ proc = "running")

\* A create request whose handler raised after the admin messages had been
\* sent has been answered 500.
C20_Witness ==
    /\ pc = "done"
    /\ req.route = "create"
    /\ entered
    /\ HandlerRaises(req)
    /\ PostsOf("admin") # {}
    /\ responses = <<500>>

-----------------------------------------------------------------------------
\* Claims about the order of the steps of a request.

\* C21: on both routes validation precedes every dispatch, the admin fan-out
\* has been attempted and has fully resolved before the customer send is
\* issued, and 200 is sent only after both legs have resolved.
C21_AdminLegBeforeCustomerLeg ==
    /\ posts # <<>> => validated
    /\ custCall # "none" =>
          /\ adminCall = "returned"
          /\ \A j \in PostsOf("admin") : http[j] # "pending"
    /\ responses = <<200>> =>
          /\ adminCall = "returned"
          /\ custCall \in {"none", "returned"}
          /\ \A j \in 1..Len(posts) : http[j] # "pending"

\* C22: the POST addressed to the recipient r of a broadcast carries to =
\* r.phone and the parameter list [r.name] followed by the base parameters,
\* the same for every recipient; for an order-created event the base
\* parameters are the 7 of the order: id, customer name, phone, address,
\* payment method, products, total.
C22_PerRecipientPersonalization ==
    \A j \in PostsOf("admin") :
        LET r == getAdminDetails(env)[posts[j].idx] IN
        /\ posts[j].to = r.phone
        /\ Head(posts[j].params) = Str(r.name)
        /\ \A k \in PostsOf("admin") : Tail(posts[k].params) = Tail(posts[j].params)
        /\ req.route = "create" =>
              /\ Len(Tail(posts[j].params)) = 7
              /\ Tail(posts[j].params)[1] = req.body.name
              /\ Tail(posts[j].params)[2] = CustomerName(req.body.customer)
              /\ Tail(posts[j].params)[6] = Products(req.body)
              /\ Tail(posts[j].params)[7] = req.body.total_price

\* An order-created broadcast has reached three recipients, each under its
\* own name.
C22_Witness ==
    /\ req.route = "create"
    /\ Cardinality(PostsOf("admin")) = 3
    /\ \A j, k \in PostsOf("admin") : j # k => Head(posts[j].params) # Head(posts[k].params)

\* No admin number is configured: the variable is unset or empty, or holds
\* only empty tokens.
EmptyDirectory ==
    \A i \in 1..Len(Tokens(env.ADMIN_WHATSAPP_NUMBERS)) :
        Tokens(env.ADMIN_WHATSAPP_NUMBERS)[i] = <<>>

\* C23: with an empty admin directory sendAdminWhatsapp issues no POST and
\* returns without waiting for anything, and the handler that called it
\* completes its request with one response.
C23_EmptyDirectoryIsNoOp ==
    (EmptyDirectory /\ adminCall # "none") =>
        /\ PostsOf("admin") = {}
        /\ adminCall # "raised"
        /\ adminCall = "running" => PromiseAll(promises) = "fulfilled"
        /\ pc = "done" => Len(responses) = 1 /\ adminCall = "returned"

\* With only empty tokens configured, an order-created request has been
\* answered 200 after its customer send and without any admin POST.
C23_Witness ==
    /\ EmptyDirectory
    /\ Truthy(env.ADMIN_WHATSAPP_NUMBERS)
    /\ req.route = "create"
    /\ adminCall = "returned"
    /\ PostsOf("admin") = {}
    /\ PostsOf("customer") # {}
    /\ pc = "done"
    /\ responses = <<200>>

\* C24: the phone of the recipient built from a number token that is a
\* 10-digit national number or a 12-digit "91"-prefixed number is 12
\* characters long and begins with "91".
C24_AdminPhoneIsNormalizedShape ==
    unitOut.k = "ok" =>
        LET numbers == Tokens(env.ADMIN_WHATSAPP_NUMBERS)
            at == NonEmptyPositions(numbers, 1)
        IN \A k \in 1..Len(at) :
              (k <= Len(unitOut.roster)
               /\ (Len(numbers[at[k]]) = 10
                   \/ (Len(numbers[at[k]]) = 12 /\ StartsWith(numbers[at[k]], <<"9", "1">>))))
              => NormalizedShape(unitOut.roster[k].phone)

-----------------------------------------------------------------------------
\* Claims about the composed parameters.

\* A text with every " no" followed by "s" written as the one piece " nos".
RECURSIVE MergeUnit(_)
MergeUnit(text) ==
    IF Len(text) < 2 THEN text
    ELSE IF text[1] = " no" /\ text[2] = "s"
    THEN <<" nos">> \o MergeUnit(SubSeq(text, 3, Len(text)))
    ELSE <<text[1]>> \o MergeUnit(Tail(text))

\* The listing of the line items under the pluralization rule: "no" for a
\* quantity of 1, "nos" for more.
PluralizedListing(line_items) ==
    Join([i \in 1..Len(line_items.items) |->
             NumStr(i) \o <<". ">> \o Text(line_items.items[i].name) \o <<" - ">>
             \o NumStr(line_items.items[i].quantity)
             \o (IF line_items.items[i].quantity > 1 THEN <<" nos">> ELSE <<" no">>)],
         <<", ">>)

\* The position of the line-item listing among the parameters of a template.
ListingAt(template) ==
    CASE template = "admin_new_order" -> 7
      [] template = "order_confirmation" -> 4
      [] template = "order_fulfilled" -> 3
      [] OTHER -> 5

\* C25: in every line-item listing placed in a template parameter, customer
\* or admin, an item of quantity 1 has the unit "no" and an item of a greater
\* quantity the unit "nos".
C25_ListingIsPluralized ==
    \A j \in 1..Len(posts) :
        req.body.line_items.t = "array" =>
            MergeUnit(posts[j].params[ListingAt(posts[j].template)].s)
                = PluralizedListing(req.body.line_items)

-----------------------------------------------------------------------------
\* Claims about the keep-alive ping.

\* A ping that timed out, met a transport error or got a non-2xx status.
FailedPing(cycle) == cycle.outcome \in {"abort", "error", "status"}

\* C26: a failed keep-alive ping is never fatal and never retried within its
\* cycle: when the fetch settles, whatever its outcome, sendKeepAlive returns
\* with the process running, the cycle still counts one GET, and the
\* last-activity timestamp and the timer are as the cycle left them; the
\* cycle after a failed ping runs one interval later and decides on the
\* elapsed time alone.
C26_FailedPingIsIgnored ==
    /\ [][(ping = "pending" /\ ping' = "none") =>
             /\ proc' = "running"
             /\ lastActivity' = lastActivity
             /\ keepAliveInterval' = keepAliveInterval
             /\ Len(cycles') = Len(cycles)
             /\ cycles'[Len(cycles)].gets = 1]_vars
    /\ [](\A i \in 1..Len(cycles) :
             (FailedPing(cycles[i]) /\ i < Len(cycles)) =>
                 /\ cycles[i + 1].at = cycles[i].at + KEEP_ALIVE_INTERVAL
                 /\ cycles[i + 1].gets =
                       IF cycles[i + 1].at - cycles[i + 1].last > INACTIVITY_THRESHOLD
                       THEN 1 ELSE 0)

\* A ping was aborted by its timeout, nothing else happened, and the next
\* cycle has pinged again.
C26_Witness ==
    /\ Len(cycles) = 2
    /\ cycles[1].outcome = "abort"
    /\ cycles[2].last = cycles[1].last
    /\ cycles[2].gets = 1
    /\ proc = "running"

-----------------------------------------------------------------------------
\* Claims about what a request leaves behind.

\* C27: a webhook request whose handling has finished has received exactly
\* one response, with status 200, 400, 401 or 500, and none is sent while it
\* is still being handled.
C27_ExactlyOneResponse ==
    Handling =>
        IF pc = "done"
        THEN Len(responses) = 1 /\ responses[1] \in {200, 400, 401, 500}
        ELSE responses = <<>>

\* A fulfilled request whose customer is not an object has been rejected with
\* the single response 400.
C27_Witness ==
    /\ pc = "done"
    /\ req.route = "fulfilled"
    /\ entered
    /\ ~validated
    /\ ~Falsy(req.body.customer)
    /\ responses = <<400>>

\* C28: a request issues at most one POST per admin recipient and at most
\* one to the customer, and a request answered 200 has issued exactly as many
\* POSTs as the roster has recipients, plus one if the customer's phone
\* normalized, whatever sends failed.
C28_AtMostOncePerRecipient ==
    /\ \A i \in 1..Len(getAdminDetails(env)) :
          Cardinality({j \in PostsOf("admin") : posts[j].idx = i}) <= 1
    /\ Cardinality(PostsOf("customer")) <= 1
    /\ (pc = "done" /\ responses = <<200>>) =>
          Len(posts) = Len(getAdminDetails(env))
                       + (IF getCustomerPhone(req.body.customer).k = "phone" THEN 1 ELSE 0)

\* A fulfilled request with three admins and a customer phone has been
\* answered 200 after four POSTs, all of which failed.
C28_Witness ==
    /\ pc = "done"
    /\ req.route = "fulfilled"
    /\ responses = <<200>>
    /\ Len(getAdminDetails(env)) = 3
    /\ Len(posts) = 4
    /\ \A j \in 1..Len(posts) : http[j] = "error"

\* C29: the keep-alive probe does not reset the inactivity clock: the arrival
\* and the handling of a request to /health that carries the marker leave
\* lastActivity unchanged, so that while nothing else has touched the
\* timestamp since the start every periodic cycle issues a keep-alive GET.
C29_ProbeDoesNotResetClock ==
    /\ [][(req'.route = "health" /\ req'.keepAlive) => lastActivity' = lastActivity]_vars
    /\ [](\A i \in 1..Len(cycles) : cycles[i].last = 0 => cycles[i].gets = 1)

\* The first cycle has pinged, the probe has been served by /health in the
\* same minute, and the second cycle, still idle, has pinged again.
C29_Witness ==
    /\ Len(cycles) = 2
    /\ cycles[1].gets = 1 /\ cycles[1].outcome = "ok"
    /\ req.route = "health" /\ req.keepAlive /\ req.at = cycles[1].at
    /\ pc = "done" /\ responses = <<200>>
    /\ cycles[2].last = 0
    /\ cycles[2].gets = 1

====
